---- MODULE Spec2Model ----
(***************************************************************************)
(* Model of the BlueZ peripheral layer of bluster:                         *)
(*   src/src/peripheral/bluez/device.rs   (DeviceProperties, Device)       *)
(*   src/src/peripheral/bluez/adapter.rs  (Adapter)                        *)
(*                                                                         *)
(* Four specifications share the module.  Spec is one Device object with   *)
(* its two RwLock-guarded cells, the D-Bus calls it has in flight and a    *)
(* thread that reads its properties.  SpecAdapter is the Adapter: the      *)
(* adapter lookup, the power property and the device enumeration.          *)
(* SpecSystem is a Device in use beside an Adapter that enumerates.        *)
(* SpecDecode applies the conversion of a property map, a pure function,   *)
(* to maps drawn from a bounded set.                                       *)
(* Devices share no state with each other (each owns its two Arc cells),   *)
(* so Spec follows a single Device.                                        *)
(***************************************************************************)
EXTENDS Integers, Sequences, FiniteSets, TLC

VARIABLES
    pan_status,   \* Device.pan_status : Arc<RwLock<DevicePanStatus>>
    properties,   \* Device.properties : Arc<RwLock<DeviceProperties>> (the cell's memory)
    guard,        \* the RwLock of Device.properties: the number of read guards out
    wguard,       \* the cells whose write guard is out between two steps
    tasks,        \* the transport calls in flight, in the order they were issued
    reader,       \* a thread sampling the properties through Device::deref().read()
    ev,           \* the last operation or reply, its transport outcome and what the caller got
    terminated,   \* a panic has unwound the thread that runs the program
    adapter,      \* Adapter.object_path once Adapter::new has returned Ok
    listed,       \* the value of the last Adapter::devices future
    dec           \* a property map handed to DeviceProperties::from, and what came back

vars == <<pan_status, properties, guard, wguard, tasks, reader, ev,
          terminated, adapter, listed, dec>>

(***************************************************************************)
(* Bounds of the model.                                                    *)
(***************************************************************************)
MaxTasks == 2

(***************************************************************************)
(* D-Bus values (dyn RefArg).  ty is the D-Bus signature code of the       *)
(* value; n its number, s its string, xs its elements (an array's items,   *)
(* a dict's keys and values alternating, a variant's single content).      *)
(***************************************************************************)
VBool(b)    == [ty |-> "b", n |-> IF b THEN 1 ELSE 0, s |-> <<>>, xs |-> <<>>]
VInt(ty, n) == [ty |-> ty, n |-> n, s |-> <<>>, xs |-> <<>>]
VStr(s)     == [ty |-> "s", n |-> 0, s |-> s, xs |-> <<>>]
VArr(xs)    == [ty |-> "a", n |-> 0, s |-> <<>>, xs |-> xs]
VDict(xs)   == [ty |-> "e", n |-> 0, s |-> <<>>, xs |-> xs]
VVariant(x) == [ty |-> "v", n |-> 0, s |-> <<>>, xs |-> <<x>>]

None    == [some |-> FALSE, n |-> 0, s |-> <<>>, xs |-> <<>>]
SomeN(n) == [some |-> TRUE, n |-> n, s |-> <<>>, xs |-> <<>>]
SomeS(s) == [some |-> TRUE, n |-> 0, s |-> s, xs |-> <<>>]
SomeXs(xs) == [some |-> TRUE, n |-> 0, s |-> <<>>, xs |-> xs]

\* RefArg::as_u64: the unsigned integer types and bool answer, a signed integer
\* answers when it is not negative, nothing else does; a variant answers for its
\* content.
RECURSIVE as_u64(_)
as_u64(v) ==
    IF v.ty \in {"y", "q", "u", "t", "b"} THEN SomeN(v.n)
    ELSE IF v.ty \in {"n", "i", "x"} THEN (IF v.n >= 0 THEN SomeN(v.n) ELSE None)
    ELSE IF v.ty = "v" THEN as_u64(v.xs[1])
    ELSE None

\* RefArg::as_i64: every integer type and bool answer (a u64 below 2^63, which
\* every number of this model is).
RECURSIVE as_i64(_)
as_i64(v) ==
    IF v.ty \in {"y", "n", "q", "i", "u", "x", "t", "b"} THEN SomeN(v.n)
    ELSE IF v.ty = "v" THEN as_i64(v.xs[1])
    ELSE None

\* RefArg::as_str: strings answer.
RECURSIVE as_str(_)
as_str(v) ==
    IF v.ty = "s" THEN SomeS(v.s)
    ELSE IF v.ty = "v" THEN as_str(v.xs[1])
    ELSE None

\* RefArg::as_iter: containers answer with their elements.
as_iter(v) == IF v.ty \in {"a", "e", "v"} THEN SomeXs(v.xs) ELSE None

\* Iterator::next on the result of as_iter
next(xs) == IF Len(xs) > 0 THEN [some |-> TRUE, v |-> xs[1]]
            ELSE [some |-> FALSE, v |-> VBool(FALSE)]

(***************************************************************************)
(* Strings are sequences of characters, so that parsing one is a           *)
(* computation on its characters.                                          *)
(***************************************************************************)
HexLower == <<"0", "1", "2", "3", "4", "5", "6", "7", "8", "9",
              "a", "b", "c", "d", "e", "f">>
HexUpper == <<"0", "1", "2", "3", "4", "5", "6", "7", "8", "9",
              "A", "B", "C", "D", "E", "F">>

IsHex(c) == \E i \in 1..16 : HexLower[i] = c \/ HexUpper[i] = c
HexVal(c) == (CHOOSE i \in 1..16 : HexLower[i] = c \/ HexUpper[i] = c) - 1

UuidHyphens == {9, 14, 19, 24}

\* uuid::Uuid::parse_str on the hyphenated (8-4-4-4-12) and the simple (32 digits)
\* forms: the sixteen bytes as thirty-two hexadecimal digits, or an error.
parse_str(cs) ==
    IF Len(cs) = 36
         /\ \A i \in 1..36 : IF i \in UuidHyphens THEN cs[i] = "-" ELSE IsHex(cs[i])
    THEN [ok |-> TRUE,
          uuid |-> LET ds == SelectSeq([i \in 1..36 |-> IF i \in UuidHyphens THEN "-" ELSE cs[i]],
                                       LAMBDA c : c # "-")
                   IN [i \in 1..Len(ds) |-> HexVal(ds[i])]]
    ELSE IF Len(cs) = 32 /\ \A i \in 1..32 : IsHex(cs[i])
    THEN [ok |-> TRUE, uuid |-> [i \in 1..32 |-> HexVal(cs[i])]]
    ELSE [ok |-> FALSE, uuid |-> <<>>]

(***************************************************************************)
(* ManufacturerCompany, ManufacturerData, DeviceProperties                 *)
(***************************************************************************)
Apple == 76    \* 0x004C

ManufacturerCompanyDefault == "Unknown"

\* The match looks at the low byte of the identifier only
ManufacturerCompanyFromLowByte(value) ==
    IF value % 256 = Apple THEN "Apple" ELSE ManufacturerCompanyDefault

\* impl From<u16> for ManufacturerCompany
ManufacturerCompanyFrom(value) ==
    IF value = Apple THEN "Apple" ELSE ManufacturerCompanyDefault

ManufacturerDataDefault == [company |-> ManufacturerCompanyDefault, data |-> <<>>]

\* #[derive(Default)] for DeviceProperties
DevicePropertiesDefault ==
    [services_resolved |-> FALSE,
     manufacturer_data |-> ManufacturerDataDefault,
     blocked |-> FALSE,
     adapter |-> <<>>,
     rssi |-> 0,
     name |-> <<>>,
     address |-> <<>>,
     paired |-> FALSE,
     icon |-> <<>>,
     alias |-> <<>>,
     trusted |-> FALSE,
     address_type |-> <<>>,
     class |-> 0,
     uuids |-> <<>>,
     legacy_pairing |-> FALSE,
     connected |-> FALSE]

Fields == DOMAIN DevicePropertiesDefault

TwoPow8  == 256
TwoPow16 == 65536
TwoPow15 == 32768

\* `as u8`, `as u16` of a u64 and `as i16` of an i64: the low bits.
AsU8(n)  == n % TwoPow8
AsU16(n) == n % TwoPow16
AsI16Saturating(n) == IF n > 32767 THEN 32767 ELSE IF n < -32768 THEN -32768 ELSE n
AsI16(n) == LET low == n % TwoPow16 IN IF low >= TwoPow15 THEN low - TwoPow16 ELSE low

\* A key that is there makes the field true
BoolPropPresence(value, key, prev) ==
    IF key \notin DOMAIN value THEN [ok |-> TRUE, v |-> prev] ELSE [ok |-> TRUE, v |-> TRUE]

\* `if let Some(data) = value.remove(key) { field = data.as_u64().unwrap() != 0 }`
\* ok is FALSE when the unwrap panics.
BoolProp(value, key, prev) ==
    IF key \notin DOMAIN value THEN [ok |-> TRUE, v |-> prev]
    ELSE LET o == as_u64(value[key])
         IN IF o.some THEN [ok |-> TRUE, v |-> (o.n # 0)] ELSE [ok |-> FALSE, v |-> prev]

\* `if let Some(data) = value.remove(key) { field = data.as_str().unwrap().into() }`
StrProp(value, key, prev) ==
    IF key \notin DOMAIN value THEN [ok |-> TRUE, v |-> prev]
    ELSE LET o == as_str(value[key])
         IN IF o.some THEN [ok |-> TRUE, v |-> o.s] ELSE [ok |-> FALSE, v |-> prev]

\* props.rssi = data.as_i64().unwrap() as i16
RssiProp(value, prev) ==
    IF "RSSI" \notin DOMAIN value THEN [ok |-> TRUE, v |-> prev]
    ELSE LET o == as_i64(value["RSSI"])
         IN IF o.some THEN [ok |-> TRUE, v |-> AsI16(o.n)] ELSE [ok |-> FALSE, v |-> prev]

\* props.class = data.as_u64().unwrap()
ClassProp(value, prev) ==
    IF "Class" \notin DOMAIN value THEN [ok |-> TRUE, v |-> prev]
    ELSE LET o == as_u64(value["Class"])
         IN IF o.some THEN [ok |-> TRUE, v |-> o.n] ELSE [ok |-> FALSE, v |-> prev]

\* data.as_iter().unwrap().next().unwrap().as_iter().unwrap(): the elements of the
\* container inside the variant.
Elements(data) ==
    LET outer == as_iter(data) IN
    IF ~outer.some THEN [ok |-> FALSE, xs |-> <<>>]
    ELSE LET first == next(outer.xs) IN
         IF ~first.some THEN [ok |-> FALSE, xs |-> <<>>]
         ELSE LET inner == as_iter(first.v) IN
              IF ~inner.some THEN [ok |-> FALSE, xs |-> <<>>]
              ELSE [ok |-> TRUE, xs |-> inner.xs]

\* .fold(Vec::new(), |mut acc, value| { acc.push(value.as_u64().unwrap() as u8); acc })
RECURSIVE FoldBytes(_, _)
FoldBytes(xs, acc) ==
    IF xs = <<>> THEN [ok |-> TRUE, data |-> acc]
    ELSE LET o == as_u64(Head(xs)) IN
         IF ~o.some THEN [ok |-> FALSE, data |-> acc]
         ELSE FoldBytes(Tail(xs), Append(acc, AsU8(o.n)))

\* The fold over the keys and values of the ManufacturerData dict: a UInt16 sets
\* the company id, a Variant sets the bytes, anything else is passed over.
RECURSIVE FoldManufacturer(_, _)
FoldManufacturer(xs, acc) ==
    IF xs = <<>> THEN [ok |-> TRUE, mfid |-> acc.mfid, mfdata |-> acc.mfdata]
    ELSE LET pair == Head(xs) IN
         IF pair.ty = "q"
         THEN FoldManufacturer(Tail(xs), [acc EXCEPT !.mfid = AsU16(as_u64(pair).n)])
         ELSE IF pair.ty = "v"
         THEN LET el == Elements(pair)
                  res == FoldBytes(el.xs, <<>>)
              IN IF el.ok /\ res.ok
                 THEN FoldManufacturer(Tail(xs), [acc EXCEPT !.mfdata = res.data])
                 ELSE [ok |-> FALSE, mfid |-> acc.mfid, mfdata |-> acc.mfdata]
         ELSE FoldManufacturer(Tail(xs), acc)

ManufacturerDataProp(value, prev) ==
    IF "ManufacturerData" \notin DOMAIN value THEN [ok |-> TRUE, v |-> prev]
    ELSE LET el == Elements(value["ManufacturerData"])
             res == FoldManufacturer(el.xs, [mfid |-> 0, mfdata |-> <<>>])
         IN IF el.ok /\ res.ok
            THEN [ok |-> TRUE,
                  v |-> [company |-> ManufacturerCompanyFrom(res.mfid), data |-> res.mfdata]]
            ELSE [ok |-> FALSE, v |-> prev]

\* .try_fold(Vec::new(), |mut acc, device_uuid| ...): stops at the first string
\* that is no UUID; the caller unwraps the result.
RECURSIVE TryFoldUuids(_, _)
TryFoldUuids(xs, acc) ==
    IF xs = <<>> THEN [ok |-> TRUE, uuids |-> acc]
    ELSE LET str_uuid == as_str(Head(xs)) IN
         IF ~str_uuid.some THEN [ok |-> FALSE, uuids |-> acc]
         ELSE LET u == parse_str(str_uuid.s) IN
              IF u.ok THEN TryFoldUuids(Tail(xs), Append(acc, u.uuid))
              ELSE [ok |-> FALSE, uuids |-> acc]

UuidsProp(value, prev) ==
    IF "UUIDs" \notin DOMAIN value THEN [ok |-> TRUE, v |-> prev]
    ELSE LET el == Elements(value["UUIDs"])
             res == TryFoldUuids(el.xs, <<>>)
         IN IF el.ok /\ res.ok THEN [ok |-> TRUE, v |-> res.uuids]
            ELSE [ok |-> FALSE, v |-> prev]

\* impl From<HashMap<String, Variant<Box<dyn RefArg>>>> for DeviceProperties.
\* ok is FALSE when one of its unwraps panics; props is then the record as far as
\* it was built, which never leaves the function.
DevicePropertiesFrom(value) ==
    LET d   == DevicePropertiesDefault
        sr  == BoolProp(value, "ServicesResolved", d.services_resolved)
        md  == ManufacturerDataProp(value, d.manufacturer_data)
        bl  == BoolProp(value, "Blocked", d.blocked)
        pa  == StrProp(value, "Path", d.adapter)
        rs  == RssiProp(value, d.rssi)
        ad  == StrProp(value, "Adapter", pa.v)
        na  == StrProp(value, "Name", d.name)
        adr == StrProp(value, "Address", d.address)
        pr  == BoolProp(value, "Paired", d.paired)
        ic  == StrProp(value, "Icon", d.icon)
        al  == StrProp(value, "Alias", d.alias)
        tr  == BoolProp(value, "Trusted", d.trusted)
        at  == StrProp(value, "AddressType", d.address_type)
        cl  == ClassProp(value, d.class)
        uu  == UuidsProp(value, d.uuids)
        lp  == BoolProp(value, "LegacyPairing", d.legacy_pairing)
        co  == BoolProp(value, "Connected", d.connected)
    IN [ok |-> sr.ok /\ md.ok /\ bl.ok /\ pa.ok /\ rs.ok /\ ad.ok /\ na.ok /\ adr.ok
                /\ pr.ok /\ ic.ok /\ al.ok /\ tr.ok /\ at.ok /\ cl.ok /\ uu.ok /\ lp.ok
                /\ co.ok,
        props |-> [services_resolved |-> sr.v,
                   manufacturer_data |-> md.v,
                   blocked |-> bl.v,
                   adapter |-> ad.v,
                   rssi |-> rs.v,
                   name |-> na.v,
                   address |-> adr.v,
                   paired |-> pr.v,
                   icon |-> ic.v,
                   alias |-> al.v,
                   trusted |-> tr.v,
                   address_type |-> at.v,
                   class |-> cl.v,
                   uuids |-> uu.v,
                   legacy_pairing |-> lp.v,
                   connected |-> co.v]]

(***************************************************************************)
(* The property maps the transport may deliver.                            *)
(***************************************************************************)
Str1 == <<"P", "i", "x", "e", "l">>
Str2 == <<"B", "a", "n", "d">>
Addr1 == <<"A", "A", ":", "0", "1">>
Addr2 == <<"B", "B", ":", "0", "2">>
Hci0Str == <<"/", "o", "r", "g", "/", "b", "l", "u", "e", "z", "/", "h", "c", "i", "0">>

\* "0000180d-0000-1000-8000-00805f9b34fb"
HeartRateUuid ==
    <<"0", "0", "0", "0", "1", "8", "0", "d", "-", "0", "0", "0", "0", "-",
      "1", "0", "0", "0", "-", "8", "0", "0", "0", "-",
      "0", "0", "8", "0", "5", "f", "9", "b", "3", "4", "f", "b">>
\* "0000180F-0000-1000-8000-00805F9B34FB"
BatteryUuid ==
    <<"0", "0", "0", "0", "1", "8", "0", "F", "-", "0", "0", "0", "0", "-",
      "1", "0", "0", "0", "-", "8", "0", "0", "0", "-",
      "0", "0", "8", "0", "5", "F", "9", "B", "3", "4", "F", "B">>
\* "0000180d-0000-1000-8000" is no UUID
BrokenUuid ==
    <<"0", "0", "0", "0", "1", "8", "0", "d", "-", "0", "0", "0", "0", "-",
      "1", "0", "0", "0", "-", "8", "0", "0", "0">>

\* A full Device1 property map as BlueZ sends it.
MapA ==
    [ServicesResolved |-> VVariant(VBool(TRUE)),
     ManufacturerData |-> VVariant(VDict(<<VInt("q", Apple),
                                           VVariant(VArr(<<VInt("y", 2), VInt("y", 21)>>))>>)),
     Blocked |-> VVariant(VBool(FALSE)),
     RSSI |-> VVariant(VInt("n", -40)),
     Adapter |-> VVariant(VStr(Hci0Str)),
     Name |-> VVariant(VStr(Str1)),
     Address |-> VVariant(VStr(Addr1)),
     Paired |-> VVariant(VBool(TRUE)),
     Icon |-> VVariant(VStr(<<"p", "h", "o", "n", "e">>)),
     Alias |-> VVariant(VStr(Str1)),
     Trusted |-> VVariant(VBool(TRUE)),
     AddressType |-> VVariant(VStr(<<"p", "u", "b", "l", "i", "c">>)),
     Class |-> VVariant(VInt("u", 5898764)),
     UUIDs |-> VVariant(VArr(<<VStr(HeartRateUuid), VStr(BatteryUuid)>>)),
     LegacyPairing |-> VVariant(VBool(FALSE)),
     Connected |-> VVariant(VBool(TRUE))]

\* The same device later: other values in several fields, and keys the decoder
\* does not know.
MapB ==
    [ServicesResolved |-> VVariant(VBool(FALSE)),
     ManufacturerData |-> VVariant(VDict(<<VInt("q", 6),
                                           VVariant(VArr(<<VInt("y", 1)>>))>>)),
     Blocked |-> VVariant(VBool(TRUE)),
     RSSI |-> VVariant(VInt("n", -71)),
     Adapter |-> VVariant(VStr(Hci0Str)),
     Name |-> VVariant(VStr(Str2)),
     Address |-> VVariant(VStr(Addr2)),
     Paired |-> VVariant(VBool(FALSE)),
     Icon |-> VVariant(VStr(<<"w", "a", "t", "c", "h">>)),
     Alias |-> VVariant(VStr(Str2)),
     Trusted |-> VVariant(VBool(FALSE)),
     AddressType |-> VVariant(VStr(<<"r", "a", "n", "d", "o", "m">>)),
     Class |-> VVariant(VInt("u", 7936)),
     UUIDs |-> VVariant(VArr(<<VStr(BatteryUuid)>>)),
     LegacyPairing |-> VVariant(VBool(TRUE)),
     Connected |-> VVariant(VBool(FALSE)),
     TxPower |-> VVariant(VInt("n", 4))]

\* A half-populated peripheral: few keys.
MapPartial ==
    [Name |-> VVariant(VStr(Str2)),
     Address |-> VVariant(VStr(Addr1)),
     Connected |-> VVariant(VBool(TRUE))]

\* RSSI of the wrong shape (a string).
MapBadShape ==
    [Name |-> VVariant(VStr(Str1)),
     RSSI |-> VVariant(VStr(<<"-", "4", "0">>))]

\* One element of UUIDs is no UUID.
MapBadUuid ==
    [Name |-> VVariant(VStr(Str1)),
     UUIDs |-> VVariant(VArr(<<VStr(HeartRateUuid), VStr(BrokenUuid)>>))]

ReplyMaps == {MapA, MapB, MapPartial, MapBadShape, MapBadUuid}

\* The conversion of each of them, computed once.
Decoded == [data \in ReplyMaps |-> DevicePropertiesFrom(data)]

IfaceNames == {"bnep0", "bnep1"}
RssiReads  == {-40, -71}

(***************************************************************************)
(* DevicePanStatus                                                         *)
(***************************************************************************)
Disconnected == [tag |-> "Disconnected", iface |-> ""]
Connecting   == [tag |-> "Connecting", iface |-> ""]
Connected(interface) == [tag |-> "Connected", iface |-> interface]

\* impl Default for DevicePanStatus
DevicePanStatusDefault == Disconnected

(***************************************************************************)
(* The event record: the last operation (or reply), what the transport     *)
(* answered, and what the caller received.                                 *)
(*   ret: "unit" the function returned (), "Ok"/"Err" a Result reached the *)
(*        caller, "none" nothing reached any caller, "panic" an unwrap or  *)
(*        expect panicked.                                                 *)
(*   pre: the PAN status before the event; val: the status inside Ok(..);  *)
(*   sample: the record a finished read copied out;                        *)
(*   data: the property map a reply to GetAll carried; n: the RSSI a Get   *)
(*   returned; idx: the place, in issue order among the calls in flight,   *)
(*   of the call a reply answers.                                          *)
(***************************************************************************)
NoMap == <<>>

NoEvent ==
    [op |-> "new", out |-> "", iface |-> "", ret |-> "none",
     pre |-> DevicePanStatusDefault, val |-> DevicePanStatusDefault,
     sample |-> DevicePropertiesDefault,
     data |-> NoMap, n |-> 0, idx |-> 0]

Event(op, out, ret) == [NoEvent EXCEPT !.op = op, !.out = out, !.ret = ret, !.pre = pan_status]

NoAdapter == [found |-> FALSE, object_path |-> <<>>]

\* Nothing handed to DeviceProperties::from yet
NoDecode ==
    [stage |-> "none", value |-> NoMap, id |-> 0, ok |-> TRUE, ret |-> "none",
     props |-> DevicePropertiesDefault, company |-> ManufacturerCompanyDefault]

\* Device::new; nothing listed.
InitDevice ==
    /\ pan_status = DevicePanStatusDefault
    /\ properties = DevicePropertiesDefault
    /\ guard = 0
    /\ wguard = {}
    /\ tasks = <<>>
    /\ reader = [pc |-> "idle", sample |-> DevicePropertiesDefault]
    /\ ev = NoEvent
    /\ terminated = FALSE
    /\ listed = [res |-> "none", bus |-> {}, devices |-> {}]

\* No Adapter yet, nothing converted.
Init == InitDevice /\ adapter = NoAdapter /\ dec = NoDecode

AdapterVars == <<adapter, listed>>
DeviceVars  == <<pan_status, properties, guard, wguard, tasks, reader>>

(***************************************************************************)
(* The two RwLocks.  guard counts the read guards of Device.properties     *)
(* that are out.  wguard holds the cells ("properties", "pan_status")      *)
(* whose write guard an operation has kept past the statement that took    *)
(* it; write() on a cell returns once none of its guards is out.           *)
(***************************************************************************)
\* A write guard handed out while a read guard is still out
CanWriteDespiteReaders == TRUE

\* RwLock::write on Device.properties returns
CanWrite == guard = 0 /\ "properties" \notin wguard

\* RwLock::write on Device.pan_status returns
CanWritePan == "pan_status" \notin wguard

\* connect_pan binds its guard to a local that lives on into the future, and
\* update_rssi takes its guard before the blocking Get
GuardsKeptAcrossCall(op) ==
    IF op = "connect_pan" THEN {"pan_status"}
    ELSE IF op = "update_rssi" THEN {"properties"}
    ELSE {}

\* The write guards operation op still holds when it hands control to the
\* transport: each `.write()` of device.rs is a temporary of the one assignment
\* it stands in and is dropped at the end of that statement, and in refresh,
\* update_rssi, the closures of connect_pan and disconnect_pan, and
\* refresh_pan_status that statement comes after the reply.
GuardsKept(op) == {}

\* connection.default.method_call(message).unwrap(): the message was queued, or
\* the unwrap panics.
SendOutcomes == {"sent", "send_failed"}

Spawn(op) == Append(tasks, op)
Remove(i) == SubSeq(tasks, 1, i - 1) \o SubSeq(tasks, i + 1, Len(tasks))

\* pub fn assign_properties(&mut self, data): the map is converted first, then stored.
AssignProperties(data) ==
    /\ ~terminated
    /\ LET new == Decoded[data] IN
       IF new.ok
       THEN /\ CanWrite
            /\ properties' = new.props
            /\ ev' = Event("assign_properties", "ok", "unit")
            /\ UNCHANGED terminated
       ELSE /\ terminated' = TRUE
            /\ ev' = Event("assign_properties", "panic", "panic")
            /\ UNCHANGED properties
    /\ UNCHANGED <<pan_status, guard, wguard, tasks, reader, adapter, listed, dec>>

\* pub fn refresh(&self): sends GetAll and spawns the future on the runtime; the
\* caller gets () whatever happens later.
Refresh(sent) ==
    /\ ~terminated
    /\ Len(tasks) < MaxTasks
    /\ IF sent = "sent"
       THEN /\ tasks' = Spawn("refresh")
            /\ wguard' = wguard \cup GuardsKept("refresh")
            /\ ev' = Event("refresh", sent, "unit")
            /\ UNCHANGED terminated
       ELSE /\ terminated' = TRUE
            /\ ev' = Event("refresh", sent, "panic")
            /\ UNCHANGED <<tasks, wguard>>
    /\ UNCHANGED <<pan_status, properties, guard, reader, adapter, listed, dec>>

\* The store done with whatever the conversion had built when it failed
RefreshStorePartial(cur, out, new) == IF out = "ok" THEN new.props ELSE cur

\* The store keeps the old value of every field the reply left at its default
RefreshStoreMerges(cur, out, new) ==
    IF out = "ok" /\ new.ok
    THEN [f \in Fields |-> IF new.props[f] = DevicePropertiesDefault[f] THEN cur[f]
                           ELSE new.props[f]]
    ELSE cur

\* What the spawned future of refresh leaves in the cell: `*inner_properties.write()
\* = new_props` runs only when the call, read1 and the conversion all went through.
RefreshStore(cur, out, new) == IF out = "ok" /\ new.ok THEN new.props ELSE cur

\* What reaches the caller of refresh from the spawned future: `.map_err(|_| ())`
\* and the runtime drop its result.
RefreshReport(out) == "none"

\* The reply to GetAll arrives (or the call fails) and the runtime polls the future.
\*   out = "ok": reply with a property map; "transport_err": the call failed;
\*   "decode_err": read1 could not read a map out of the reply.
\* A panic of DeviceProperties::from inside the task either ends the process or is
\* caught by the runtime that polls it, which then drops the task.
RefreshReply(i, out, data, caught) ==
    /\ ~terminated
    /\ i \in 1..Len(tasks) /\ tasks[i] = "refresh"
    /\ LET new == Decoded[data]
           panics == out = "ok" /\ ~new.ok
       IN /\ (out = "ok" /\ new.ok) => CanWrite
          /\ properties' = RefreshStore(properties, out, new)
          /\ terminated' = (panics /\ ~caught)
          /\ ev' = [Event("refresh_reply",
                          IF panics THEN "decode_panic" ELSE out,
                          IF panics THEN "panic" ELSE RefreshReport(out))
                      EXCEPT !.data = IF out = "ok" THEN data ELSE NoMap,
                             !.idx = i]
    /\ tasks' = Remove(i)
    /\ UNCHANGED <<pan_status, guard, wguard, reader, adapter, listed, dec>>

\* pub fn update_rssi(&self) up to its blocking `props.get(DEVICE_IFACE, "RSSI")`:
\* the caller waits for the transport.
UpdateRssiCall ==
    /\ ~terminated
    /\ Len(tasks) < MaxTasks
    /\ tasks' = Spawn("update_rssi")
    /\ wguard' = wguard \cup GuardsKept("update_rssi")
    /\ ev' = Event("update_rssi_call", "", "none")
    /\ UNCHANGED <<pan_status, properties, guard, reader, terminated, adapter, listed, dec>>

\* A failed read clears the cached signal strength
UpdateRssiStoreClears(cur, ok, rssi) == [cur EXCEPT !.rssi = IF ok THEN rssi ELSE 0]

\* The match of update_rssi: `Ok(rssi) => self.properties.write().rssi = rssi`,
\* `Err(e) => println!(..)`.
UpdateRssiStore(cur, ok, rssi) == IF ok THEN [cur EXCEPT !.rssi = rssi] ELSE cur

\* The Get of update_rssi returns an i16 or an error, and the function returns ().
UpdateRssi(i, ok, rssi) ==
    /\ ~terminated
    /\ i \in 1..Len(tasks) /\ tasks[i] = "update_rssi"
    /\ ok => CanWrite
    /\ properties' = UpdateRssiStore(properties, ok, rssi)
    /\ ev' = [Event("update_rssi", IF ok THEN "ok" ELSE "transport_err", "unit")
                EXCEPT !.n = IF ok THEN rssi ELSE 0, !.idx = i]
    /\ tasks' = Remove(i)
    /\ UNCHANGED <<pan_status, guard, wguard, reader, terminated, adapter, listed, dec>>

\* The first statement of connect_pan: `*self.pan_status.write() = Connecting`
ConnectPanIssued(cur) == Connecting

\* pub fn connect_pan(&self) up to the return of the future.
ConnectPan(sent) ==
    /\ ~terminated
    /\ Len(tasks) < MaxTasks
    /\ CanWritePan
    /\ pan_status' = ConnectPanIssued(pan_status)
    /\ IF sent = "sent"
       THEN /\ tasks' = Spawn("connect_pan")
            /\ wguard' = wguard \cup GuardsKept("connect_pan")
            /\ ev' = Event("connect_pan", sent, "future")
            /\ UNCHANGED terminated
       ELSE /\ terminated' = TRUE
            /\ ev' = Event("connect_pan", sent, "panic")
            /\ UNCHANGED <<tasks, wguard>>
    /\ UNCHANGED <<properties, guard, reader, adapter, listed, dec>>

\* The closure never stores the new status
ConnectPanThenNoStore(cur, out, connection_id) == cur

\* A failed connect puts the status back to Disconnected
ConnectPanThenReverts(cur, out, connection_id) ==
    IF out = "ok" THEN Connected(connection_id) ELSE Disconnected

\* The closure installs its status only where nothing replaced Connecting meanwhile
ConnectPanThenIfConnecting(cur, out, connection_id) ==
    IF out = "ok" /\ cur = Connecting THEN Connected(connection_id) ELSE cur

\* The closure of connect_pan's and_then: runs on Ok(connection_id) only.
ConnectPanThen(cur, out, connection_id) ==
    IF out = "ok" THEN Connected(connection_id) ELSE cur

\* The value the future of connect_pan / disconnect_pan resolves to.
FutureResult(out) == IF out = "ok" THEN "Ok" ELSE "Err"

\* The caller polls the future of connect_pan and the reply is there:
\* "ok" with the interface name, "transport_err", or "decode_err" (read1::<String>).
ConnectPanReply(i, out, connection_id) ==
    /\ ~terminated
    /\ i \in 1..Len(tasks) /\ tasks[i] = "connect_pan"
    /\ out = "ok" => CanWritePan
    /\ pan_status' = ConnectPanThen(pan_status, out, connection_id)
    /\ ev' = [Event("connect_pan_reply", out, FutureResult(out))
                EXCEPT !.iface = IF out = "ok" THEN connection_id ELSE "",
                       !.idx = i]
    /\ tasks' = Remove(i)
    /\ UNCHANGED <<properties, guard, wguard, reader, terminated, adapter, listed, dec>>

\* pub fn disconnect_pan(&self) up to the return of the future: the status is
\* neither read nor written.
DisconnectPan(sent) ==
    /\ ~terminated
    /\ Len(tasks) < MaxTasks
    /\ IF sent = "sent"
       THEN /\ tasks' = Spawn("disconnect_pan")
            /\ wguard' = wguard \cup GuardsKept("disconnect_pan")
            /\ ev' = Event("disconnect_pan", sent, "future")
            /\ UNCHANGED terminated
       ELSE /\ terminated' = TRUE
            /\ ev' = Event("disconnect_pan", sent, "panic")
            /\ UNCHANGED <<tasks, wguard>>
    /\ UNCHANGED <<pan_status, properties, guard, reader, adapter, listed, dec>>

\* The closure disconnects only a status that is Connected
DisconnectPanThenIfConnected(cur, out) ==
    IF out = "ok" /\ cur.tag = "Connected" THEN Disconnected ELSE cur

\* The closure stores Disconnected whatever the reply was
DisconnectPanThenAlways(cur, out) == Disconnected

\* The closure of disconnect_pan's and_then: runs on Ok(_) only.
DisconnectPanThen(cur, out) == IF out = "ok" THEN Disconnected ELSE cur

DisconnectPanReply(i, out) ==
    /\ ~terminated
    /\ i \in 1..Len(tasks) /\ tasks[i] = "disconnect_pan"
    /\ out = "ok" => CanWritePan
    /\ pan_status' = DisconnectPanThen(pan_status, out)
    /\ ev' = [Event("disconnect_pan_reply", out, FutureResult(out)) EXCEPT !.idx = i]
    /\ tasks' = Remove(i)
    /\ UNCHANGED <<properties, guard, wguard, reader, terminated, adapter, listed, dec>>

\* pub fn refresh_pan_status(&self) up to its first blocking
\* `props.get(NETWORK_IFACE, "Connected")`: the caller waits for the transport.
RefreshPanStatusCall ==
    /\ ~terminated
    /\ Len(tasks) < MaxTasks
    /\ tasks' = Spawn("refresh_pan_status")
    /\ wguard' = wguard \cup GuardsKept("refresh_pan_status")
    /\ ev' = Event("refresh_pan_status_call", "", "none")
    /\ UNCHANGED <<pan_status, properties, guard, reader, terminated, adapter, listed, dec>>

\* A connected device reported as Connecting
PanStatusOfConnecting(connected, interface) ==
    IF connected THEN Connecting ELSE Disconnected

\* `let status = if connected { Connected(interface) } else { Disconnected }`
PanStatusOf(connected, interface) ==
    IF connected THEN Connected(interface) ELSE Disconnected

\* A read that fails resets the cached status
RefreshPanStatusStoreResets(cur, out, status) ==
    IF out \in {"connected", "not_connected"} THEN status ELSE Disconnected

\* `*self.pan_status.write() = status.clone()`, reached only past both `?`
RefreshPanStatusStore(cur, out, status) ==
    IF out \in {"connected", "not_connected"} THEN status ELSE cur

\* The blocking reads of refresh_pan_status return, each with `?`.
\*   out = "err_connected": the read of Connected failed; "err_interface": Connected
\*   was true and the read of Interface failed.
RefreshPanStatus(i, out, interface) ==
    /\ ~terminated
    /\ i \in 1..Len(tasks) /\ tasks[i] = "refresh_pan_status"
    /\ LET status == PanStatusOf(out = "connected", interface)
           good == out \in {"connected", "not_connected"}
       IN /\ good => CanWritePan
          /\ pan_status' = RefreshPanStatusStore(pan_status, out, status)
          /\ ev' = [Event("refresh_pan_status", out, IF good THEN "Ok" ELSE "Err")
                      EXCEPT !.iface = IF out = "connected" THEN interface ELSE "",
                             !.val = IF good THEN status ELSE DevicePanStatusDefault,
                             !.idx = i]
    /\ tasks' = Remove(i)
    /\ UNCHANGED <<properties, guard, wguard, reader, terminated, adapter, listed, dec>>

(***************************************************************************)
(* A reader: device.read() takes a read guard, the record is copied out    *)
(* field by field, and the guard is dropped.  The copy is two steps of the *)
(* model, so that a store between them would show.                         *)
(***************************************************************************)
FirstHalf == {"services_resolved", "manufacturer_data", "blocked", "adapter",
              "rssi", "name", "address", "paired"}

ReadBegin ==
    /\ ~terminated
    /\ reader.pc = "idle"
    /\ "properties" \notin wguard
    /\ guard' = guard + 1
    /\ reader' = [pc |-> "copying",
                  sample |-> [f \in Fields |-> IF f \in FirstHalf THEN properties[f]
                                               ELSE DevicePropertiesDefault[f]]]
    /\ ev' = Event("read_begin", "", "none")
    /\ UNCHANGED <<pan_status, properties, wguard, tasks, terminated, adapter, listed, dec>>

ReadEnd ==
    /\ ~terminated
    /\ reader.pc = "copying"
    /\ guard' = guard - 1
    /\ reader' = [pc |-> "idle", sample |-> DevicePropertiesDefault]
    /\ ev' = [Event("read_end", "", "none")
                EXCEPT !.sample = [f \in Fields |-> IF f \in FirstHalf THEN reader.sample[f]
                                                    ELSE properties[f]]]
    /\ UNCHANGED <<pan_status, properties, wguard, tasks, terminated, adapter, listed, dec>>

ReplyOutcomes == {"ok", "transport_err", "decode_err"}

\* What the transport may do with the call at place i of those in flight
Resolve(i) ==
    \/ \E out \in ReplyOutcomes, data \in ReplyMaps, caught \in BOOLEAN :
          RefreshReply(i, out, data, caught)
    \/ \E ok \in BOOLEAN, rssi \in RssiReads : UpdateRssi(i, ok, rssi)
    \/ \E out \in ReplyOutcomes, id \in IfaceNames : ConnectPanReply(i, out, id)
    \/ \E out \in {"ok", "transport_err"} : DisconnectPanReply(i, out)
    \/ \E out \in {"connected", "not_connected", "err_connected", "err_interface"},
          interface \in IfaceNames : RefreshPanStatus(i, out, interface)

Next ==
    \/ \E data \in ReplyMaps : AssignProperties(data)
    \/ \E sent \in SendOutcomes : Refresh(sent)
    \/ UpdateRssiCall
    \/ \E sent \in SendOutcomes : ConnectPan(sent)
    \/ \E sent \in SendOutcomes : DisconnectPan(sent)
    \/ RefreshPanStatusCall
    \/ \E i \in 1..MaxTasks : Resolve(i)
    \/ ReadBegin
    \/ ReadEnd

Spec == Init /\ [][Next]_vars

(***************************************************************************)
(* Adapter.  An object path is the sequence of its pieces: each "/" and    *)
(* the text between two of them, the prefix "dev_" of a device's name      *)
(* being a piece of its own.                                               *)
(***************************************************************************)
LE_ADVERTISING_MANAGER_IFACE == "org.bluez.LEAdvertisingManager1"
ADAPTER_IFACE == "org.bluez.Adapter1"
DEVICE_IFACE == "org.bluez.Device1"

Hci0 == <<"/", "org", "/", "bluez", "/", "hci0">>
Hci1 == <<"/", "org", "/", "bluez", "/", "hci1">>

\* "/org/bluez/hci0/dev_"
DevicePathPattern == Hci0 \o <<"/", "dev_">>

\* spath.split('/').count() == 5
DevicePathParts == 5

\* str::contains
contains(path, pat) ==
    \E i \in 1..(Len(path) - Len(pat) + 1) : SubSeq(path, i, i + Len(pat) - 1) = pat

\* str::split('/').count(): one more than the number of separators
split_count(path) == Cardinality({i \in 1..Len(path) : path[i] = "/"}) + 1

AdapterProps == [Powered |-> VVariant(VBool(TRUE))]
OtherProps   == [Player |-> VVariant(VStr(<<"p">>))]

Iface(name, props) == name :> props

\* The objects BlueZ may report from GetManagedObjects.
ObjHci0      == [path |-> Hci0,
                 ifaces |-> Iface(ADAPTER_IFACE, AdapterProps)
                              @@ Iface(LE_ADVERTISING_MANAGER_IFACE, AdapterProps)]
ObjHci1      == [path |-> Hci1,
                 ifaces |-> Iface(ADAPTER_IFACE, AdapterProps)
                              @@ Iface(LE_ADVERTISING_MANAGER_IFACE, AdapterProps)]
ObjDevA      == [path |-> Hci0 \o <<"/", "dev_", "AA_01">>,
                 ifaces |-> Iface(DEVICE_IFACE, MapA)
                              @@ Iface("org.bluez.Network1", OtherProps)]
ObjDevB      == [path |-> Hci0 \o <<"/", "dev_", "BB_02">>,
                 ifaces |-> Iface(DEVICE_IFACE, MapPartial)]
ObjDevBBad   == [path |-> Hci0 \o <<"/", "dev_", "BB_02">>,
                 ifaces |-> Iface(DEVICE_IFACE, MapBadShape)]
ObjDeep      == [path |-> Hci0 \o <<"/", "dev_", "AA_01", "/", "service0001">>,
                 ifaces |-> Iface(DEVICE_IFACE, MapB)]
ObjUnrelated == [path |-> Hci0 \o <<"/", "dev_", "CC_03">>,
                 ifaces |-> Iface("org.bluez.MediaControl1", OtherProps)]
ObjDev1A     == [path |-> Hci1 \o <<"/", "dev_", "AA_01">>,
                 ifaces |-> Iface(DEVICE_IFACE, MapB)]

BusObjects == {ObjHci0, ObjHci1, ObjDevA, ObjDevB, ObjDevBBad,
               ObjDeep, ObjUnrelated, ObjDev1A}

\* ManagedObjectsProps is a HashMap keyed by path: no path occurs twice.
Enumerations ==
    {E \in SUBSET BusObjects : \A o1, o2 \in E : o1.path = o2.path => o1 = o2}

\* The objects `find` may stop at: the map is iterated in no particular order.
AdvertisingObjects(props) ==
    {o \in props : LE_ADVERTISING_MANAGER_IFACE \in DOMAIN o.ifaces}

\* Adapter::new, that is find_adapter: `.await?` hands a transport error back, and
\* `.expect(..)` panics when no object has the advertising interface.
AdapterNew(out, props) ==
    /\ ~terminated
    /\ IF out # "ok"
       THEN /\ ev' = Event("adapter_new", out, "Err")
            /\ UNCHANGED <<adapter, terminated>>
       ELSE IF AdvertisingObjects(props) = {}
       THEN /\ ev' = Event("adapter_new", "ok", "panic")
            /\ terminated' = TRUE
            /\ UNCHANGED adapter
       ELSE /\ \E o \in AdvertisingObjects(props) :
                  adapter' = [found |-> TRUE, object_path |-> o.path]
            /\ ev' = Event("adapter_new", "ok", "Ok")
            /\ UNCHANGED terminated
    /\ UNCHANGED listed
    /\ UNCHANGED <<DeviceVars, dec>>

\* pub async fn powered(&self, on)
Powered(on, ok) ==
    /\ ~terminated
    /\ adapter.found
    /\ ev' = Event("powered", IF ok THEN "ok" ELSE "transport_err", IF ok THEN "Ok" ELSE "Err")
    /\ UNCHANGED <<terminated, adapter, listed>>
    /\ UNCHANGED <<DeviceVars, dec>>

\* pub async fn is_powered(&self): Ok(powered.0)
IsPowered(ok, powered) ==
    /\ ~terminated
    /\ adapter.found
    /\ ev' = Event("is_powered",
                   IF ~ok THEN "transport_err" ELSE IF powered THEN "true" ELSE "false",
                   IF ok THEN "Ok" ELSE "Err")
    /\ UNCHANGED <<terminated, adapter, listed>>
    /\ UNCHANGED <<DeviceVars, dec>>

\* The filter_map of devices(): the objects kept.
IsDevice(o) ==
    /\ contains(o.path, DevicePathPattern)
    /\ DEVICE_IFACE \in DOMAIN o.ifaces
    /\ split_count(o.path) = DevicePathParts

\* Device::new followed by assign_properties(bz_device)
NewDevice(o) ==
    [object_path |-> o.path,
     pan_status |-> DevicePanStatusDefault,
     properties |-> Decoded[o.ifaces[DEVICE_IFACE]].props]

\* The fold of devices(): one Device per object kept; assign_properties panics on
\* a map that does not convert, and the panic leaves the fold.
DevicesFold(kept) ==
    IF \E o \in kept : ~Decoded[o.ifaces[DEVICE_IFACE]].ok
    THEN [res |-> "panic", devices |-> {}]
    ELSE [res |-> "Ok", devices |-> {NewDevice(o) : o \in kept}]

\* pub fn devices(&self) and the poll of its future.
\*   out = "send_failed": method_call(..).unwrap() panics; "transport_err" and
\*   "decode_err" (read1) resolve the future to Err; "ok": the reply holds `map`.
Devices(out, map) ==
    /\ ~terminated
    /\ adapter.found
    /\ LET folded == DevicesFold({o \in map : IsDevice(o)}) IN
       IF out = "send_failed"
       THEN /\ terminated' = TRUE
            /\ listed' = [res |-> "panic", bus |-> {}, devices |-> {}]
            /\ ev' = Event("devices", out, "panic")
       ELSE IF out # "ok"
       THEN /\ listed' = [res |-> "Err", bus |-> {}, devices |-> {}]
            /\ ev' = Event("devices", out, "Err")
            /\ UNCHANGED terminated
       ELSE /\ listed' = [res |-> folded.res, bus |-> map, devices |-> folded.devices]
            /\ terminated' = (folded.res = "panic")
            /\ ev' = Event("devices", out, folded.res)
    /\ UNCHANGED adapter
    /\ UNCHANGED <<DeviceVars, dec>>

\* What the transport may answer to GetManagedObjects
ManagedObjectsReplies ==
    {[out |-> out, map |-> {}] : out \in {"send_failed", "transport_err", "decode_err"}}
      \cup {[out |-> "ok", map |-> map] : map \in Enumerations}

NextAdapter ==
    \/ \E r \in ManagedObjectsReplies \ {[out |-> "send_failed", map |-> {}]} :
          AdapterNew(r.out, r.map)
    \/ \E on \in BOOLEAN, ok \in BOOLEAN : Powered(on, ok)
    \/ \E ok \in BOOLEAN, powered \in BOOLEAN : IsPowered(ok, powered)
    \/ \E r \in ManagedObjectsReplies : Devices(r.out, r.map)

SpecAdapter == Init /\ [][NextAdapter]_vars

(***************************************************************************)
(* A Device in use next to an Adapter that enumerates: the operations that *)
(* touch the PAN status, refresh and update_rssi, and devices() of an      *)
(* Adapter that Adapter::new has returned for hci0.                        *)
(***************************************************************************)
InitSystem ==
    /\ InitDevice
    /\ adapter = [found |-> TRUE, object_path |-> Hci0]
    /\ dec = NoDecode

\* What the transport answers to GetManagedObjects here
ListingReplies ==
    {[out |-> "transport_err", map |-> {}],
     [out |-> "ok", map |-> {ObjHci0, ObjDevA, ObjDeep}]}

NextSystem ==
    \/ \E sent \in SendOutcomes : Refresh(sent)
    \/ UpdateRssiCall
    \/ \E sent \in SendOutcomes : ConnectPan(sent)
    \/ \E sent \in SendOutcomes : DisconnectPan(sent)
    \/ RefreshPanStatusCall
    \/ \E i \in 1..MaxTasks : Resolve(i)
    \/ \E r \in ListingReplies : Devices(r.out, r.map)

SpecSystem == InitSystem /\ [][NextSystem]_vars

(***************************************************************************)
(* DeviceProperties::from and ManufacturerCompany::from on their own: a    *)
(* property map, or a company identifier, is drawn and the function is     *)
(* applied to it.                                                          *)
(***************************************************************************)
MaxUuids == 3

\* HashMap restricted to some of its keys
Restrict(value, keys) == [k \in (DOMAIN value \cap keys) |-> value[k]]

\* "/org/bluez/hci0/dev_AA"
DevPathStr == Hci0Str \o <<"/", "d", "e", "v", "_", "A", "A">>

\* "0000180d00001000800000805f9b34fb": the simple form, which parse_str takes too
SimpleUuid == SelectSeq(HeartRateUuid, LAMBDA c : c # "-")

\* The keys taken or left one by one; the other keys are taken or left together.
KeyPool == {"RSSI", "UUIDs", "ManufacturerData", "Name", "Connected", "Adapter", "Path",
            "TxPower"}

FullMaps == {MapA @@ ("Path" :> VVariant(VStr(DevPathStr))),
             MapB @@ ("Path" :> VVariant(VStr(DevPathStr)))}

SubsetMaps ==
    {Restrict(m, K \cup R) : m \in FullMaps, K \in SUBSET KeyPool,
                             R \in {{}, DOMAIN MapA \ KeyPool}}

RECURSIVE SeqsUpTo(_, _)
SeqsUpTo(S, n) ==
    IF n = 0 THEN {<<>>}
    ELSE LET shorter == SeqsUpTo(S, n - 1)
         IN shorter \cup {Append(xs, x) : xs \in shorter, x \in S}

\* UUIDs arrays of up to MaxUuids strings, broken ones among them
UuidMaps ==
    {[UUIDs |-> VVariant(VArr([i \in 1..Len(xs) |-> VStr(xs[i])]))] :
        xs \in SeqsUpTo({HeartRateUuid, BatteryUuid, BrokenUuid, SimpleUuid}, MaxUuids)}

\* RSSI as the int16 BlueZ sends and as the wider integers a bus may carry
RssiMaps ==
    {[RSSI |-> VVariant(VInt("n", n))] : n \in {-32768, -40, 0, 32767}}
      \cup {[RSSI |-> VVariant(VInt(ty, n))] :
               ty \in {"i", "x"},
               n \in {-2147483647, -65576, -65536, -32769, -32768, -40, 32767, 32768,
                      65496, 65535, 65536, 98304, 100000, 2147483647}}
      \cup {[RSSI |-> VVariant(VInt(ty, n))] : ty \in {"u", "t"}, n \in {40, 32768, 65496}}

\* ManufacturerData with company identifiers around Apple's and at both ends
CompanyMaps ==
    {[ManufacturerData |-> VVariant(VDict(<<VInt("q", id),
                                            VVariant(VArr(<<VInt("y", 255)>>))>>))] :
        id \in {0, 75, 76, 77, 332, 19456, 65535}}

DecodeInputs == SubsetMaps \cup UuidMaps \cup RssiMaps \cup CompanyMaps \cup ReplyMaps

\* Every u16
CompanyIds == 0..(TwoPow16 - 1)

InitDecode ==
    /\ InitDevice
    /\ adapter = NoAdapter
    /\ \/ \E value \in DecodeInputs : dec = [NoDecode EXCEPT !.stage = "map", !.value = value]
       \/ \E id \in CompanyIds : dec = [NoDecode EXCEPT !.stage = "id", !.id = id]

\* What a caller of DeviceProperties::from gets: the record, or the panic of the
\* unwrap that met None or Err; the function has no error value to return.
FromResult(ok) == IF ok THEN "record" ELSE "panic"

\* DeviceProperties::from(value)
Convert ==
    /\ ~terminated
    /\ dec.stage = "map"
    /\ LET new == DevicePropertiesFrom(dec.value) IN
         /\ dec' = [dec EXCEPT !.stage = "converted", !.ok = new.ok,
                               !.ret = FromResult(new.ok),
                               !.props = IF new.ok THEN new.props
                                         ELSE DevicePropertiesDefault]
         /\ terminated' = ~new.ok
    /\ UNCHANGED <<DeviceVars, ev, adapter, listed>>

\* ManufacturerCompany::from(id)
Lookup ==
    /\ ~terminated
    /\ dec.stage = "id"
    /\ dec' = [dec EXCEPT !.stage = "looked_up", !.company = ManufacturerCompanyFrom(dec.id)]
    /\ UNCHANGED <<DeviceVars, ev, terminated, adapter, listed>>

NextDecode == Convert \/ Lookup

SpecDecode == InitDecode /\ [][NextDecode]_vars

(***************************************************************************)
(* Properties                                                              *)
(***************************************************************************)
InFlight(op) == \E i \in 1..Len(tasks) : tasks[i] = op

\* C1: once connect_pan has returned, and before any reply to it, the PAN status
\* is Connecting and the request is in flight; once the reply carrying interface
\* name n has been handled, the status is Connected(n) with that very name.
ConnectPanReachesConnected ==
    /\ (ev.op = "connect_pan" /\ ev.out = "sent")
          => (pan_status = Connecting /\ InFlight("connect_pan"))
    /\ (ev.op = "connect_pan_reply" /\ ev.out = "ok")
          => (pan_status = Connected(ev.iface) /\ ev.iface \in IfaceNames)

\* A connect issued on a Disconnected device ...
ConnectPanIssuedWitness ==
    ev.op = "connect_pan" /\ ev.pre = Disconnected /\ pan_status = Connecting

\* ... and its reply "bnep0" handled while the status was Connecting.
ConnectPanWitness ==
    /\ ev.op = "connect_pan_reply" /\ ev.out = "ok" /\ ev.iface = "bnep0"
    /\ ev.pre = Connecting
    /\ pan_status = Connected("bnep0")

\* C2: after a successful reply to disconnect_pan the PAN status is Disconnected,
\* whatever it was before; issuing the request leaves the status as it was.
DisconnectPanReachesDisconnected ==
    /\ (ev.op = "disconnect_pan_reply" /\ ev.out = "ok") => pan_status = Disconnected
    /\ (ev.op = "disconnect_pan" /\ ev.out = "sent")
          => (pan_status = ev.pre /\ InFlight("disconnect_pan"))

\* A successful disconnect reply handled while the status was Connecting.
DisconnectPanWitness ==
    /\ ev.op = "disconnect_pan_reply" /\ ev.out = "ok"
    /\ ev.pre = Connecting
    /\ pan_status = Disconnected

\* C3: what a reader copies out under its read guard is one whole snapshot: while
\* it copies, the fields it has agree with the cell, and the finished sample is
\* the record the cell holds (the one from before the refresh in flight, or the
\* one a finished refresh stored), never fields of two records.
ReaderSeesWholeSnapshot ==
    /\ reader.pc = "copying" => \A f \in FirstHalf : reader.sample[f] = properties[f]
    /\ ev.op = "read_end" => ev.sample = properties

\* A sample finished while a refresh is in flight, of a record a refresh stored.
ReaderWitness ==
    /\ ev.op = "read_end" /\ InFlight("refresh")
    /\ ev.sample = Decoded[MapB].props

\* C4: a refresh whose call fails, whose reply is no property map, or whose map
\* does not convert, leaves the cached DeviceProperties exactly as they were.
FailedRefreshKeepsSnapshot ==
    [][(ev'.op = "refresh_reply" /\ ev'.out # "ok") => properties' = properties]_vars

\* A conversion failed in the task, with a decoded snapshot still in the cell.
FailedRefreshWitness ==
    /\ ev.op = "refresh_reply" /\ ev.out = "decode_panic"
    /\ properties = Decoded[MapA].props

\* C5: a refresh whose call failed, or whose reply could not be read as a property
\* map, hands a failure result to the caller of refresh.
RefreshFailureReported ==
    (ev.op = "refresh_reply" /\ ev.out \in {"transport_err", "decode_err"})
        => ev.ret = "Err"

\* C6: no operation and no transport outcome ends the process: a failure is an
\* error result in the caller's hands, never a panic.
NoFailureTerminates == ~terminated /\ ev.ret # "panic"

\* The parent of an object path: the path cut before its last "/".
ParentOf(path) ==
    LET last == CHOOSE i \in 1..Len(path) :
                    path[i] = "/" /\ \A j \in (i + 1)..Len(path) : path[j] # "/"
    IN SubSeq(path, 1, last - 1)

ListedPaths == {d.object_path : d \in listed.devices}

\* The devices of an enumeration whose properties convert
Healthy(bus) == {o \in bus : IsDevice(o) /\ Decoded[o.ifaces[DEVICE_IFACE]].ok}

\* C7: when the enumeration holds, beside devices whose properties convert, a
\* device whose properties do not, the enumeration still succeeds and returns a
\* Device for every one whose properties convert.
UndecodableDeviceSkipped ==
    (ev.op = "devices" /\ ev.out = "ok" /\ Healthy(listed.bus) # {})
        => /\ listed.res = "Ok"
           /\ \A o \in Healthy(listed.bus) : o.path \in ListedPaths

\* C8: the mapping devices() returns has as keys exactly the objects one level
\* below the adapter's own path that expose the device interface.
ListsChildrenOfAdapter ==
    (ev.op = "devices" /\ ev.out = "ok" /\ listed.res = "Ok")
        => ListedPaths = {o.path : o \in {x \in listed.bus :
                                             /\ ParentOf(x.path) = adapter.object_path
                                             /\ DEVICE_IFACE \in DOMAIN x.ifaces}}

RefreshPanStatusFollowsTransport ==
    ev.op = "refresh_pan_status" =>
        /\ ev.out = "connected"
              => (pan_status = Connected(ev.iface) /\ ev.ret = "Ok" /\ ev.val = pan_status)
        /\ ev.out = "not_connected"
              => (pan_status = Disconnected /\ ev.ret = "Ok" /\ ev.val = pan_status)
        /\ ev.out \in {"connected", "not_connected"} => pan_status # Connecting
        /\ ev.out \in {"err_connected", "err_interface"}
              => (pan_status = ev.pre /\ ev.ret = "Err")

\* A status of Connecting replaced by what the transport reports.
RefreshPanStatusWitness ==
    /\ ev.op = "refresh_pan_status" /\ ev.out = "connected" /\ ev.iface = "bnep1"
    /\ ev.pre = Connecting
    /\ pan_status = Connected("bnep1")

\* C11: the PAN status starts as Disconnected, and a step changes it only in one
\* of these ways: to Connecting by the call of connect_pan; to Connected(n) by a
\* successful reply to connect_pan carrying n or by a refresh_pan_status that
\* read connected with interface n; to Disconnected by a successful reply to
\* disconnect_pan or by a refresh_pan_status that read not connected.  refresh,
\* its reply, update_rssi and devices() leave the status of the Device as it is,
\* and the Devices that devices() builds start as Disconnected.
PanStatusChangesAlongEdges ==
    /\ pan_status = Disconnected
    /\ [][/\ pan_status' # pan_status =>
               \/ ev'.op = "connect_pan" /\ pan_status' = Connecting
               \/ /\ ev'.op = "connect_pan_reply" /\ ev'.out = "ok"
                  /\ pan_status' = Connected(ev'.iface)
               \/ /\ ev'.op = "refresh_pan_status" /\ ev'.out = "connected"
                  /\ pan_status' = Connected(ev'.iface)
               \/ /\ ev'.op = "disconnect_pan_reply" /\ ev'.out = "ok"
                  /\ pan_status' = Disconnected
               \/ /\ ev'.op = "refresh_pan_status" /\ ev'.out = "not_connected"
                  /\ pan_status' = Disconnected
          /\ ev'.op \in {"refresh", "refresh_reply", "update_rssi_call", "update_rssi",
                         "devices"}
                => pan_status' = pan_status
          /\ \A d \in listed'.devices : d.pan_status = Disconnected]_vars

\* devices() has returned Devices while the Device in use is Connected.
PanStatusEdgesWitness ==
    /\ ev.op = "devices" /\ ev.out = "ok" /\ listed.devices # {}
    /\ pan_status = Connected("bnep0")

FieldKeys(f) ==
    CASE f = "services_resolved" -> {"ServicesResolved"}
      [] f = "manufacturer_data" -> {"ManufacturerData"}
      [] f = "blocked"           -> {"Blocked"}
      [] f = "adapter"           -> {"Path", "Adapter"}
      [] f = "rssi"              -> {"RSSI"}
      [] f = "name"              -> {"Name"}
      [] f = "address"           -> {"Address"}
      [] f = "paired"            -> {"Paired"}
      [] f = "icon"              -> {"Icon"}
      [] f = "alias"             -> {"Alias"}
      [] f = "trusted"           -> {"Trusted"}
      [] f = "address_type"      -> {"AddressType"}
      [] f = "class"             -> {"Class"}
      [] f = "uuids"             -> {"UUIDs"}
      [] f = "legacy_pairing"    -> {"LegacyPairing"}
      [] f = "connected"         -> {"Connected"}

\* C13: once the reply to a refresh has been handled with success, the cached
\* record is the conversion of the reply's map, field for field; a field none of
\* whose keys is in the reply holds its default, not what it held before.
RefreshReplacesSnapshot ==
    (ev.op = "refresh_reply" /\ ev.out = "ok") =>
        /\ properties = DevicePropertiesFrom(ev.data).props
        /\ \A f \in Fields :
              FieldKeys(f) \cap DOMAIN ev.data = {}
                  => properties[f] = DevicePropertiesDefault[f]

\* A reply of three keys handled: the three fields hold its values, and RSSI,
\* UUIDs and the rest are back at their defaults.
RefreshReplacesWitness ==
    /\ ev.op = "refresh_reply" /\ ev.out = "ok"
    /\ DOMAIN ev.data = {"Name", "Address", "Connected"}
    /\ properties.name = Str2 /\ properties.connected
    /\ properties.rssi = 0 /\ properties.uuids = <<>>

\* C14: update_rssi changes nothing but rssi.  When the read succeeds rssi is the
\* value read and every other field and the PAN status are what they were; when
\* the read fails the whole record is what it was; either way the caller gets ().
UpdateRssiChangesOnlyRssi ==
    [][ev'.op = "update_rssi" =>
          /\ pan_status' = pan_status
          /\ \A f \in Fields \ {"rssi"} : properties'[f] = properties[f]
          /\ ev'.out = "ok" => properties'.rssi = ev'.n
          /\ ev'.out # "ok" => properties' = properties
          /\ ev'.ret = "unit"]_vars

\* A read of -71 stored over a decoded record of a device that is Connecting.
UpdateRssiWitness ==
    /\ ev.op = "update_rssi" /\ ev.out = "ok" /\ ev.n = -71
    /\ properties = [Decoded[MapA].props EXCEPT !.rssi = -71]
    /\ pan_status = Connecting

\* C19: a reply installs its value without looking at which request was issued
\* last or at what the cell holds.  Whatever the place of the answered call among
\* those in flight, whatever the status before and whatever is still in flight,
\* a successful reply to connect_pan leaves Connected(n), a successful reply to
\* disconnect_pan leaves Disconnected and a successful reply to refresh leaves
\* the conversion of its map: of two such replies, the one handled last decides.
LastReplyWins ==
    \A i \in 1..MaxTasks :
        (ev.idx = i /\ ev.out = "ok") =>
            /\ ev.op = "connect_pan_reply" => pan_status = Connected(ev.iface)
            /\ ev.op = "disconnect_pan_reply" => pan_status = Disconnected
            /\ ev.op = "refresh_reply" => properties = Decoded[ev.data].props

\* connect_pan issued first and disconnect_pan second; the reply to
\* disconnect_pan is handled first, the connect still in flight.
LastReplyWitness ==
    /\ ev.op = "disconnect_pan_reply" /\ ev.out = "ok" /\ ev.idx = 2
    /\ tasks = <<"connect_pan">>
    /\ pan_status = Disconnected

\* C20: a status of Connecting is left only by a successful reply to connect_pan,
\* a successful reply to disconnect_pan or a successful refresh_pan_status; every
\* other step (refresh, update_rssi, a failed reply, a failed refresh_pan_status,
\* another call of connect_pan) keeps it.  With no connect_pan and no
\* disconnect_pan in flight, the status after a successful refresh_pan_status is
\* what the transport reported.
ConnectingIsSticky ==
    [][/\ (pan_status = Connecting /\ pan_status' # Connecting) =>
              \/ ev'.op \in {"connect_pan_reply", "disconnect_pan_reply"} /\ ev'.out = "ok"
              \/ ev'.op = "refresh_pan_status" /\ ev'.out \in {"connected", "not_connected"}
       /\ (/\ ev'.op = "refresh_pan_status"
           /\ ev'.out \in {"connected", "not_connected"}
           /\ ~InFlight("connect_pan")' /\ ~InFlight("disconnect_pan")')
             => pan_status' = (IF ev'.out = "connected" THEN Connected(ev'.iface)
                               ELSE Disconnected)]_vars

\* No call in flight and the status Connecting (so a connect_pan has failed), and
\* a refresh_pan_status has just failed on it.
ConnectingStickyWitness ==
    /\ ~terminated /\ tasks = <<>>
    /\ ev.op = "refresh_pan_status" /\ ev.out = "err_connected"
    /\ ev.pre = Connecting /\ pan_status = Connecting

\* The value BlueZ put inside the variant of key
Supplied(value, key) == value[key].xs[1]

BoolKeys == {"ServicesResolved", "Blocked", "Paired", "Trusted", "LegacyPairing", "Connected"}
StrKeys  == {"Path", "Adapter", "Name", "Address", "Icon", "Alias", "AddressType"}

\* The text of a UUID: 8-4-4-4-12 hexadecimal digits, or the 32 digits alone
IsUuidText(cs) ==
    \/ /\ Len(cs) = 36
       /\ \A i \in 1..36 : IF i \in {9, 14, 19, 24} THEN cs[i] = "-" ELSE IsHex(cs[i])
    \/ /\ Len(cs) = 32
       /\ \A i \in 1..32 : IsHex(cs[i])

\* The 32 digits of a UUID text, as numbers
UuidDigits(cs) ==
    LET ds == SelectSeq(cs, LAMBDA c : c # "-") IN [i \in 1..Len(ds) |-> HexVal(ds[i])]

\* Every recognized key of the map holds a value of the type BlueZ documents for it.
WellTyped(value) ==
    \A key \in DOMAIN value :
        LET x == Supplied(value, key) IN
        /\ value[key].ty = "v"
        /\ key \in BoolKeys => x.ty = "b"
        /\ key \in StrKeys => x.ty = "s"
        /\ key = "RSSI" => (x.ty = "n" /\ x.n \in -32768..32767)
        /\ key = "Class" => (x.ty = "u" /\ x.n >= 0)
        /\ key = "UUIDs" =>
              (x.ty = "a" /\ \A i \in 1..Len(x.xs) : x.xs[i].ty = "s" /\ IsUuidText(x.xs[i].s))
        /\ key = "ManufacturerData" =>
              /\ x.ty = "e" /\ Len(x.xs) \in {0, 2}
              /\ Len(x.xs) = 2 =>
                    /\ x.xs[1].ty = "q" /\ x.xs[1].n \in 0..65535
                    /\ x.xs[2].ty = "v" /\ x.xs[2].xs[1].ty = "a"
                    /\ \A i \in 1..Len(x.xs[2].xs[1].xs) :
                          /\ x.xs[2].xs[1].xs[i].ty = "y"
                          /\ x.xs[2].xs[1].xs[i].n \in 0..255

\* The field f of the record a well-typed map stands for
ExpectedField(f, value) ==
    LET d == DevicePropertiesDefault
        Bool(key) == IF key \in DOMAIN value THEN Supplied(value, key).n = 1 ELSE d[f]
        Str(key)  == IF key \in DOMAIN value THEN Supplied(value, key).s ELSE d[f]
        Num(key)  == IF key \in DOMAIN value THEN Supplied(value, key).n ELSE d[f]
    IN CASE f = "services_resolved" -> Bool("ServicesResolved")
         [] f = "blocked"           -> Bool("Blocked")
         [] f = "paired"            -> Bool("Paired")
         [] f = "trusted"           -> Bool("Trusted")
         [] f = "legacy_pairing"    -> Bool("LegacyPairing")
         [] f = "connected"         -> Bool("Connected")
         [] f = "name"              -> Str("Name")
         [] f = "address"           -> Str("Address")
         [] f = "icon"              -> Str("Icon")
         [] f = "alias"             -> Str("Alias")
         [] f = "address_type"      -> Str("AddressType")
         [] f = "adapter"           -> IF "Adapter" \in DOMAIN value THEN Str("Adapter")
                                       ELSE Str("Path")
         [] f = "rssi"              -> Num("RSSI")
         [] f = "class"             -> Num("Class")
         [] f = "uuids"             ->
               IF "UUIDs" \notin DOMAIN value THEN d[f]
               ELSE LET xs == Supplied(value, "UUIDs").xs
                    IN [i \in 1..Len(xs) |-> UuidDigits(xs[i].s)]
         [] f = "manufacturer_data" ->
               IF "ManufacturerData" \notin DOMAIN value THEN d[f]
               ELSE LET xs == Supplied(value, "ManufacturerData").xs IN
                    IF Len(xs) = 0 THEN d[f]
                    ELSE LET bytes == xs[2].xs[1].xs
                         IN [company |-> IF xs[1].n = 76 THEN "Apple" ELSE "Unknown",
                             data |-> [i \in 1..Len(bytes) |-> bytes[i].n]]

\* C15: a property map that holds some of the recognized keys, each with a value
\* of its type, converts to a complete record: every field whose key is there
\* holds the value supplied (adapter that of Adapter, or of Path when Adapter is
\* absent), every field whose key is absent holds its default, and the keys the
\* conversion does not know change nothing.
PartialMapDecodes ==
    (dec.stage = "converted" /\ WellTyped(dec.value)) =>
        /\ dec.ret = "record"
        /\ \A f \in Fields : dec.props[f] = ExpectedField(f, dec.value)

\* Name, RSSI and an unknown key supplied; the other fields at their defaults.
PartialMapWitness ==
    /\ dec.stage = "converted" /\ DOMAIN dec.value = {"Name", "RSSI", "TxPower"}
    /\ dec.props = [DevicePropertiesDefault EXCEPT !.name = Str2, !.rssi = -71]

\* C16: a UUIDs array with a string that is no UUID makes the conversion end in
\* an error value, and no record is returned; an array whose strings all parse
\* gives their UUIDs in the same order.
MalformedUuidIsAnError ==
    (dec.stage = "converted" /\ DOMAIN dec.value = {"UUIDs"}) =>
        LET xs == Supplied(dec.value, "UUIDs").xs IN
        IF \E i \in 1..Len(xs) : ~IsUuidText(xs[i].s)
        THEN dec.ret = "Err"
        ELSE /\ dec.ret = "record"
             /\ dec.props.uuids = [i \in 1..Len(xs) |-> UuidDigits(xs[i].s)]

IntegerTypes == {"y", "n", "q", "i", "u", "x", "t"}

CompanyLookupIsTotal ==
    /\ dec.stage = "looked_up" =>
          dec.company = (IF dec.id = 76 THEN "Apple" ELSE "Unknown")
    /\ (dec.stage = "converted" /\ DOMAIN dec.value = {"ManufacturerData"}) =>
          LET xs == Supplied(dec.value, "ManufacturerData").xs IN
          dec.props.manufacturer_data.company = (IF xs[1].n = 76 THEN "Apple" ELSE "Unknown")

\* 0xFFFF looked up.
CompanyLookupWitness ==
    dec.stage = "looked_up" /\ dec.id = 65535 /\ dec.company = "Unknown"
====
